---- MODULE Spec2Model ----
(***************************************************************************)
(* The PMXT Python SDK: the sidecar Supervisor (pmxt/server_manager.py,    *)
(* class ServerManager) and the construction of an exchange handle         *)
(* (pmxt/client.py, Exchange.__init__).                                    *)
(*                                                                         *)
(* The lock file, the process table and the health endpoints are the       *)
(* environment the Supervisor reads; each I/O operation of the Supervisor  *)
(* is one step, so that other Supervisors and the sidecar can interleave.  *)
(***************************************************************************)
EXTENDS Integers, FiniteSets, Sequences, TLC

----------------------------------------------------------------------------
(* Program constants and bounds *)

DEFAULT_PORT == 3847

\* range(5): attempts of the access-token loop of Exchange.__init__
TokenAttempts == 5

\* process ids 1..MaxPid can appear in a lock file or run
MaxPid == 2

\* iterations of the polling loop that fit into HEALTH_CHECK_TIMEOUT
\* (one iteration = one tick of HEALTH_CHECK_INTERVAL plus the request)
PollBudget == 2

\* m.title[:70]
TitleWidth == 70

\* longest list of records handed to a filter
MaxLen == 2

\* largest volume, liquidity, open interest, count or bound
MaxVal == 2

\* API requests an exchange handle issues for load_markets
MaxCalls == 3

Sups == {"s1", "s2"}

Pids == 1..MaxPid

\* pid key absent, null or 0: `not pid` is true
NoPid == 0

\* a pid value os.kill() cannot take (a string, a list, ...)
BadPid == MaxPid + 1

\* the port key is absent (lock file) / the URL names no port
NoPort == 0

Ports == {DEFAULT_PORT, DEFAULT_PORT + 1}

\* what GET /health on a port gives: 200 with {"status":"ok"}, 200 with
\* another status value, a non-200 code, 200 with a body that is no JSON
\* object, or no connection
Responses == {"ok", "other_status", "non200", "malformed", "refused"}

Tokens == {"none", "tok"}

\* the content of ~/.pmxt/server.lock
NoLockFile == [kind |-> "absent", pid |-> NoPid, port |-> NoPort, token |-> "none"]

BrokenLocks ==
    { [kind |-> k, pid |-> NoPid, port |-> NoPort, token |-> "none"] :
        k \in {"unreadable", "notjson", "nonobject"} }

ObjectLocks ==
    [kind : {"object"}, pid : Pids \cup {NoPid, BadPid},
     port : Ports \cup {NoPort}, token : Tokens]

LockFiles == {NoLockFile} \cup BrokenLocks \cup ObjectLocks

Urls == Ports \cup {NoPort}

----------------------------------------------------------------------------
VARIABLES
    lock,       \* content of the lock file
    running,    \* pids of the running processes
    health,     \* port -> answer of GET /health
    sup,        \* per Supervisor / exchange handle: position and locals
    call,       \* the last call of a local filter: arguments and result
    exchange    \* the market cache of an exchange handle

vars == <<lock, running, health, sup, call, exchange>>

env == <<lock, running, health>>

IdleSup ==
    [pc |-> "idle", mode |-> "none", port |-> DEFAULT_PORT,
     rpid |-> NoPid, rport |-> NoPort,
     ret |-> "none", err |-> "none",
     elapsed |-> 0, launches |-> 0, launch |-> "none", polled |-> FALSE, missedOk |-> FALSE,
     apiPort |-> NoPort, hdr |-> "none", attempt |-> 0, sent |-> "unsent",
     fnf |-> FALSE,
     callState |-> "none", lockAtCall |-> NoLockFile,
     unlinked |-> [state |-> "none", newer |-> FALSE]]

\* no filter has been called
NoCall == [fn |-> "none"]

\* market ids, and a dict market_id -> title; a key the dict does not have
\* is held as <<"None">>
MarketIds == 1..MaxLen

NoMarkets == [id \in MarketIds |-> <<"None">>]

\* Exchange.__init__: self.markets = {}, self._loaded_markets = False;
\* `requests` counts the API requests of load_markets, `last` is its last call
NewExchange ==
    [_loaded_markets |-> FALSE, markets |-> NoMarkets, requests |-> 0,
     last |-> [called |-> FALSE]]

----------------------------------------------------------------------------
(* Pure helpers of ServerManager *)

\* parsed.port or self.DEFAULT_PORT
_extract_port_from_url(url) ==
    IF url = NoPort THEN DEFAULT_PORT ELSE url

\* lock_data.get('port', self.DEFAULT_PORT)
LockPort(l) ==
    IF l.port = NoPort THEN DEFAULT_PORT ELSE l.port

\* variant: any HTTP 200 with a JSON object counts, the status value is
\* not compared
_check_health_any200(port) ==
    /\ port \in Ports
    /\ health[port] \in {"ok", "other_status"}

\* True only for HTTP 200 whose JSON body has status == 'ok'; every
\* exception (connection, HTTP error, body that is no JSON object) is False
_check_health(port) ==
    IF port \notin Ports THEN FALSE                    \* nothing to connect to
    ELSE IF health[port] = "refused" THEN FALSE        \* URLError
    ELSE IF health[port] = "non200" THEN FALSE         \* HTTPError / status != 200
    ELSE IF health[port] = "malformed" THEN FALSE      \* json.loads or .get raises
    ELSE health[port] = "ok"                           \* data.get('status') == 'ok'

\* os.kill(pid, 0) raises no OSError
_is_process_running(pid) ==
    pid \in running

\* while time.time() - start_time < self.HEALTH_CHECK_TIMEOUT
WaitLoopCond(elapsed) ==
    elapsed < PollBudget

\* the accessor of the parsed lock file: nothing (NoPort) when there is no
\* lock file or it is malformed, the default when the object has no port
get_running_port ==
    IF lock.kind = "object" THEN LockPort(lock) ELSE NoPort

\* json.loads(self.lock_path.read_text()) or None: the access token the
\* constructor finds in it ("none": no server info or no accessToken key)
get_server_info ==
    IF lock.kind = "object" THEN lock.token ELSE "none"

----------------------------------------------------------------------------
(* The Supervisor states of the design, as a function of the environment *)

Usable(l) ==
    l.kind = "object" /\ l.pid \in Pids

Classify(l, r, h) ==
    IF l.kind = "absent" THEN "NoLock"
    ELSE IF ~Usable(l) THEN "Malformed"
    ELSE IF l.pid \notin r THEN "StaleLock"
    ELSE IF h[LockPort(l)] = "ok" THEN "Healthy"
    ELSE "LiveUnresponsive"

Healthy ==
    Classify(lock, running, health) = "Healthy"

----------------------------------------------------------------------------
(* How a call ends or goes on *)

\* a step of Supervisor s; it touches no filter
Upd(s, rec) ==
    /\ sup' = [sup EXCEPT ![s] = rec]
    /\ UNCHANGED <<call, exchange>>

\* an exception leaves the call (Exchange.__init__ wraps and re-raises it)
Raise(rec, e) ==
    [rec EXCEPT !.pc = "raised", !.err = e]

\* ensure_server_running() returns None; in Exchange.__init__ the
\* constructor goes on to get_running_port()
EnsureReturn(rec) ==
    IF rec.mode = "construct"
    THEN [rec EXCEPT !.pc = "get_port"]
    ELSE [rec EXCEPT !.pc = "returned"]

\* is_server_alive() returns r: to its caller, or into
\* `if self.is_server_alive(): return` of ensure_server_running()
AliveReturn(rec, r) ==
    IF rec.mode = "alive"
    THEN [rec EXCEPT !.pc = "returned", !.ret = IF r THEN "true" ELSE "false"]
    ELSE IF r THEN EnsureReturn(rec)
    ELSE [rec EXCEPT !.pc = "launch"]

\* a call starts on a manager built for base_url `url`
Enter(mode, url) ==
    [IdleSup EXCEPT
        !.pc = "alive_exists", !.mode = mode,
        !.port = _extract_port_from_url(url),
        !.callState = Classify(lock, running, health),
        !.lockAtCall = IF mode = "alive" THEN lock ELSE NoLockFile]

----------------------------------------------------------------------------
(* ServerManager *)

\* a caller invokes is_server_alive()
is_server_alive(s) ==
    /\ sup[s].pc = "idle"
    /\ \E url \in Urls : Upd(s, Enter("alive", url))
    /\ UNCHANGED env

\* a caller invokes ensure_server_running()
ensure_server_running(s) ==
    /\ sup[s].pc = "idle"
    /\ \E url \in Urls : Upd(s, Enter("ensure", url))
    /\ UNCHANGED env

\* if not self.lock_path.exists(): return False
AliveExists(s) ==
    /\ sup[s].pc = "alive_exists"
    /\ IF lock.kind = "absent"
       THEN Upd(s, AliveReturn(sup[s], FALSE))
       ELSE Upd(s, [sup[s] EXCEPT !.pc = "alive_read"])
    /\ UNCHANGED env

\* variant: an unreadable or unparseable lock file is deleted as well
AliveRead_cleanup(s) ==
    /\ sup[s].pc = "alive_read"
    /\ IF lock.kind \in {"absent", "unreadable", "notjson"}
       THEN /\ Upd(s, AliveReturn(sup[s], FALSE))
            /\ lock' = NoLockFile
       ELSE IF lock.kind = "nonobject"
       THEN /\ Upd(s, Raise(sup[s], "AttributeError"))
            /\ UNCHANGED lock
       ELSE IF lock.pid = NoPid
       THEN /\ Upd(s, AliveReturn(sup[s], FALSE))
            /\ UNCHANGED lock
       ELSE /\ Upd(s, [sup[s] EXCEPT !.pc = "alive_kill",
                                     !.rpid = lock.pid, !.rport = LockPort(lock)])
            /\ UNCHANGED lock
    /\ UNCHANGED <<running, health>>

\* variant: the handler catches json.JSONDecodeError only, a lock file that
\* cannot be read raises
AliveRead_nooserror(s) ==
    /\ sup[s].pc = "alive_read"
    /\ IF lock.kind \in {"absent", "unreadable"}
       THEN Upd(s, Raise([sup[s] EXCEPT !.fnf = @ \/ lock = NoLockFile],
                         "OSError"))
       ELSE IF lock.kind = "notjson"
       THEN Upd(s, AliveReturn(sup[s], FALSE))
       ELSE IF lock.kind = "nonobject"
       THEN Upd(s, Raise(sup[s], "AttributeError"))
       ELSE IF lock.pid = NoPid
       THEN Upd(s, AliveReturn(sup[s], FALSE))
       ELSE Upd(s, [sup[s] EXCEPT !.pc = "alive_kill",
                                  !.rpid = lock.pid, !.rport = LockPort(lock)])
    /\ UNCHANGED env

\* json.loads(self.lock_path.read_text()), the two .get() and `if not pid`
AliveRead(s) ==
    /\ sup[s].pc = "alive_read"
    /\ IF lock.kind \in {"absent", "unreadable", "notjson"}
       THEN \* OSError or JSONDecodeError: caught, return False
            \* (fnf: the file had gone since exists(), FileNotFoundError)
            Upd(s, AliveReturn([sup[s] EXCEPT !.fnf = @ \/ lock = NoLockFile],
                               FALSE))
       ELSE IF lock.kind = "nonobject"
       THEN \* lock_data.get: AttributeError, not caught
            Upd(s, Raise(sup[s], "AttributeError"))
       ELSE IF lock.pid = NoPid
       THEN Upd(s, AliveReturn(sup[s], FALSE))
       ELSE Upd(s, [sup[s] EXCEPT !.pc = "alive_kill",
                                  !.rpid = lock.pid, !.rport = LockPort(lock)])
    /\ UNCHANGED env

\* variant: a dead recorded process makes the call return False at once,
\* the lock file is left for later
AliveKill_skip(s) ==
    /\ sup[s].pc = "alive_kill"
    /\ IF sup[s].rpid \notin Pids
       THEN Upd(s, Raise(sup[s], "TypeError"))
       ELSE IF _is_process_running(sup[s].rpid)
       THEN Upd(s, [sup[s] EXCEPT !.pc = "alive_health"])
       ELSE Upd(s, AliveReturn(sup[s], FALSE))
    /\ UNCHANGED env

\* if not self._is_process_running(pid)
AliveKill(s) ==
    /\ sup[s].pc = "alive_kill"
    /\ IF sup[s].rpid \notin Pids
       THEN \* os.kill: TypeError, caught by neither handler
            Upd(s, Raise(sup[s], "TypeError"))
       ELSE IF _is_process_running(sup[s].rpid)
       THEN Upd(s, [sup[s] EXCEPT !.pc = "alive_health"])
       ELSE Upd(s, [sup[s] EXCEPT !.pc = "alive_unlink"])
    /\ UNCHANGED env

\* variant: the stale lock file is left in place
_remove_stale_lock_keep(s) ==
    /\ sup[s].pc = "alive_unlink"
    /\ Upd(s, AliveReturn(sup[s], FALSE))
    /\ UNCHANGED env

\* self._remove_stale_lock(); return False
\* (unlink() of a file that has gone raises FileNotFoundError: `except: pass`)
\* `unlinked` notes a deleted file whose recorded process was running when
\* it was deleted, and whether it was written after the one this call read
_remove_stale_lock(s) ==
    /\ sup[s].pc = "alive_unlink"
    /\ lock' = NoLockFile
    /\ Upd(s, AliveReturn([sup[s] EXCEPT
               !.fnf = @ \/ lock = NoLockFile,
               !.unlinked =
                   IF lock.kind = "object" /\ _is_process_running(lock.pid)
                   THEN [state |-> Classify(lock, running, health),
                         newer |-> lock.pid # sup[s].rpid]
                   ELSE @], FALSE))
    /\ UNCHANGED <<running, health>>

\* variant: the quick health check goes to the configured port, not to the
\* port read from the lock file
AliveHealth_cfgPort(s) ==
    /\ sup[s].pc = "alive_health"
    /\ Upd(s, AliveReturn(sup[s], _check_health(sup[s].port)))
    /\ UNCHANGED env

\* variant: a recorded process that does not answer has its lock file
\* removed
AliveHealth_repair(s) ==
    /\ sup[s].pc = "alive_health"
    /\ Upd(s, AliveReturn(sup[s], _check_health(sup[s].rport)))
    /\ lock' = IF _check_health(sup[s].rport) THEN lock ELSE NoLockFile
    /\ UNCHANGED <<running, health>>

\* return self._check_health(port, timeout=1)
AliveHealth(s) ==
    /\ sup[s].pc = "alive_health"
    /\ Upd(s, AliveReturn(sup[s], _check_health(sup[s].rport)))
    /\ UNCHANGED env

LaunchOutcomes == {"ok", "notfound", "nonzero", "timeout"}

\* variant: the exit status of the launcher is not looked at
_start_server_via_launcher_noexit(s) ==
    /\ sup[s].pc = "launch"
    /\ \E o \in {"ok", "notfound", "nonzero", "timeout"} :
         IF o \in {"ok", "nonzero"}
         THEN /\ Upd(s, [sup[s] EXCEPT !.pc = "wait", !.elapsed = 0,
                                       !.launches = @ + 1, !.launch = o,
                                       !.callState = "none"])
              /\ \E started \in {{}} \cup {{p} : p \in Pids} :
                     running' = running \cup started
         ELSE /\ Upd(s, Raise([sup[s] EXCEPT !.launches = @ + 1, !.launch = o],
                               "launch"))
              /\ UNCHANGED running
    /\ UNCHANGED <<lock, health>>

\* the launcher is looked up and run once; exit 0 may have started a sidecar
_start_server_via_launcher(s) ==
    /\ sup[s].pc = "launch"
    /\ \E o \in LaunchOutcomes :
         IF o = "ok"
         THEN /\ Upd(s, [sup[s] EXCEPT !.pc = "wait", !.elapsed = 0,
                                       !.launches = @ + 1, !.launch = o,
                                       !.callState = "none"])
              /\ \E started \in {{}} \cup {{p} : p \in Pids} :
                     running' = running \cup started
         ELSE /\ Upd(s, Raise([sup[s] EXCEPT !.launches = @ + 1, !.launch = o],
                               "launch"))
              /\ UNCHANGED running
    /\ UNCHANGED <<lock, health>>

\* variant: the start time is taken again in every turn of the loop
_wait_for_health_restart(s) ==
    /\ sup[s].pc = "wait"
    /\ IF WaitLoopCond(0)
       THEN IF _check_health(sup[s].port)
            THEN Upd(s, EnsureReturn([sup[s] EXCEPT !.polled = TRUE]))
            ELSE Upd(s, [sup[s] EXCEPT !.polled = TRUE,
                                       !.missedOk = @ \/ Healthy])
       ELSE Upd(s, Raise(sup[s], "health_timeout"))
    /\ UNCHANGED env

\* one turn of the polling loop, or the raise after it
_wait_for_health(s) ==
    /\ sup[s].pc = "wait"
    /\ IF WaitLoopCond(sup[s].elapsed)
       THEN IF _check_health(sup[s].port)
            THEN Upd(s, EnsureReturn([sup[s] EXCEPT !.polled = TRUE]))
            ELSE Upd(s, [sup[s] EXCEPT
                     !.polled = TRUE,
                     !.elapsed = IF @ < PollBudget THEN @ + 1 ELSE @,
                     !.missedOk = @ \/ Healthy])
       ELSE Upd(s, Raise(sup[s], "health_timeout"))
    /\ UNCHANGED env

----------------------------------------------------------------------------
(* Exchange.__init__ *)

\* Exchange(exchange_name, base_url=url, auto_start_server=auto)
Exchange__init__(s) ==
    /\ sup[s].pc = "idle"
    /\ \E url \in Urls, auto \in BOOLEAN :
         IF auto
         THEN Upd(s, Enter("construct", url))
         ELSE Upd(s, [IdleSup EXCEPT !.pc = "token", !.mode = "construct_manual",
                                     !.port = _extract_port_from_url(url),
                                     !.apiPort = url])
    /\ UNCHANGED env

\* variant: the base URL keeps the configured port
ExchangeGetPort_cfg(s) ==
    /\ sup[s].pc = "get_port"
    /\ Upd(s, [IdleSup EXCEPT !.pc = "token", !.mode = "construct",
                              !.port = sup[s].port, !.attempt = 0,
                              !.apiPort = sup[s].port])
    /\ UNCHANGED env

\* actual_port = self._server_manager.get_running_port()
\* base_url = f"http://localhost:{actual_port}"
\* (ensure_server_running() is over: its locals and history are dropped)
ExchangeGetPort(s) ==
    /\ sup[s].pc = "get_port"
    /\ Upd(s, [IdleSup EXCEPT !.pc = "token", !.mode = "construct",
                              !.port = sup[s].port, !.attempt = 0,
                              !.apiPort = get_running_port])
    /\ UNCHANGED env

\* one attempt of the access-token loop; after the last one the header is
\* set when the token was found
ExchangeToken(s) ==
    /\ sup[s].pc = "token"
    /\ \/ /\ get_server_info # "none"
          /\ Upd(s, [sup[s] EXCEPT !.pc = "returned", !.hdr = get_server_info])
       \/ /\ get_server_info = "none"
          /\ IF sup[s].attempt < TokenAttempts - 1
             THEN Upd(s, [sup[s] EXCEPT !.attempt = @ + 1])
             ELSE Upd(s, [sup[s] EXCEPT !.pc = "returned"])
       \/ \* the lock file holds a JSON number: 'accessToken' in 5 is a TypeError
          /\ lock.kind = "nonobject"
          /\ Upd(s, Raise(sup[s], "TypeError"))
    /\ UNCHANGED env

\* variant: the request headers are built without default_headers
_call_method_nohdr(s) ==
    /\ sup[s].pc = "returned"
    /\ sup[s].mode \in {"construct", "construct_manual"}
    /\ Upd(s, [sup[s] EXCEPT !.sent = "none"])
    /\ UNCHANGED env

\* an API call on the constructed handle: headers.update(default_headers);
\* `sent` is the x-pmxt-access-token header of the request ("none": not set)
_call_method(s) ==
    /\ sup[s].pc = "returned"
    /\ sup[s].mode \in {"construct", "construct_manual"}
    /\ Upd(s, [sup[s] EXCEPT !.sent = sup[s].hdr])
    /\ UNCHANGED env

\* the caller takes the result or the exception
Finish(s) ==
    /\ sup[s].pc \in {"returned", "raised"}
    /\ Upd(s, IdleSup)
    /\ UNCHANGED env

----------------------------------------------------------------------------
(* The environment: the sidecar, other processes, the file system *)

\* a running sidecar records its pid, its bound port and its token
SidecarWriteLock ==
    /\ \E p \in running, q \in Ports, t \in Tokens :
         lock' = [kind |-> "object", pid |-> p, port |-> q, token |-> t]
    /\ UNCHANGED <<running, health, sup, call, exchange>>

\* whatever listens on a port changes its answer to GET /health
SidecarServe ==
    /\ \E q \in Ports, r \in Responses :
         health' = [health EXCEPT ![q] = r]
    /\ UNCHANGED <<lock, running, sup, call, exchange>>

ProcessExit ==
    /\ \E p \in running : running' = running \ {p}
    /\ UNCHANGED <<lock, health, sup, call, exchange>>

ProcessStart ==
    /\ \E p \in Pids \ running : running' = running \cup {p}
    /\ UNCHANGED <<lock, health, sup, call, exchange>>

\* between calls the lock file can be left in any condition
CorruptLock ==
    /\ \A s \in Sups : sup[s].pc = "idle"
    /\ \E l \in LockFiles : lock' = l
    /\ UNCHANGED <<running, health, sup, call, exchange>>

----------------------------------------------------------------------------
(* Specifications *)

Init ==
    /\ lock \in LockFiles
    /\ running \in SUBSET Pids
    /\ health \in [Ports -> Responses]
    /\ sup = [s \in Sups |-> IdleSup]
    /\ call = NoCall
    /\ exchange = NewExchange

\* one Supervisor, one call at a time (the single-threaded model); the
\* environment moves between the Supervisor's I/O bursts: between calls
\* and during the sleeps of the polling loop and of the token loop
Solo == {"s1"}

AtRest ==
    \A s \in Sups : sup[s].pc \in {"idle", "wait", "token"}

Next ==
    \/ \E s \in Solo : is_server_alive(s)
    \/ \E s \in Solo : ensure_server_running(s)
    \/ \E s \in Solo : Exchange__init__(s)
    \/ \E s \in Solo : AliveExists(s)
    \/ \E s \in Solo : AliveRead(s)
    \/ \E s \in Solo : AliveKill(s)
    \/ \E s \in Solo : _remove_stale_lock(s)
    \/ \E s \in Solo : AliveHealth(s)
    \/ \E s \in Solo : _start_server_via_launcher(s)
    \/ \E s \in Solo : _wait_for_health(s)
    \/ \E s \in Solo : ExchangeGetPort(s)
    \/ \E s \in Solo : ExchangeToken(s)
    \/ \E s \in Solo : _call_method(s)
    \/ \E s \in Solo : Finish(s)
    \/ AtRest /\ SidecarWriteLock
    \/ AtRest /\ SidecarServe
    \/ AtRest /\ ProcessExit
    \/ AtRest /\ ProcessStart
    \/ CorruptLock

Spec == Init /\ [][Next]_vars

\* the steps of ensure_server_running()
EnsureStep(s) ==
    \/ ensure_server_running(s)
    \/ AliveExists(s) \/ AliveRead(s) \/ AliveKill(s) \/ _remove_stale_lock(s)
    \/ AliveHealth(s) \/ _start_server_via_launcher(s) \/ _wait_for_health(s)
    \/ Finish(s)

NextEnsure ==
    \/ \E s \in Solo : ensure_server_running(s)
    \/ \E s \in Solo : AliveExists(s)
    \/ \E s \in Solo : AliveRead(s)
    \/ \E s \in Solo : AliveKill(s)
    \/ \E s \in Solo : _remove_stale_lock(s)
    \/ \E s \in Solo : AliveHealth(s)
    \/ \E s \in Solo : _start_server_via_launcher(s)
    \/ \E s \in Solo : _wait_for_health(s)
    \/ \E s \in Solo : Finish(s)
    \/ AtRest /\ SidecarWriteLock
    \/ AtRest /\ SidecarServe
    \/ AtRest /\ ProcessExit
    \/ AtRest /\ ProcessStart
    \/ CorruptLock

\* calls of ensure_server_running() alone; the calling thread keeps
\* running: every step is a blocking call with a timeout or a bounded sleep
FairSpec ==
    Init /\ [][NextEnsure]_vars /\ WF_vars(\E s \in Solo : EnsureStep(s))

\* several Supervisors at once, every I/O step interleaved with the steps
\* of the others and of the sidecar. All are built for the default base URL;
\* the sidecar answers /health or refuses and writes well-formed lock files
RaceLocks ==
    {NoLockFile} \cup {l \in ObjectLocks : l.pid \in Pids /\ l.port = DEFAULT_PORT
                                          /\ l.token = "none"}

RaceResponses == {"ok", "refused"}

\* racing calls of is_server_alive()
InitRace ==
    /\ lock \in RaceLocks
    /\ running \in SUBSET Pids
    /\ health \in [Ports -> RaceResponses]
    /\ \A q \in Ports \ {DEFAULT_PORT} : health[q] = "refused"
    /\ sup = [s \in Sups |-> IdleSup]
    /\ call = NoCall
    /\ exchange = NewExchange

NextRace ==
    \/ \E s \in Sups : is_server_alive(s) /\ sup'[s].port = DEFAULT_PORT
    \/ \E s \in Sups : AliveExists(s)
    \/ \E s \in Sups : AliveRead(s)
    \/ \E s \in Sups : AliveKill(s)
    \/ \E s \in Sups : _remove_stale_lock(s)
    \/ \E s \in Sups : AliveHealth(s)
    \/ \E s \in Sups : Finish(s)
    \/ SidecarWriteLock /\ lock' \in RaceLocks
    \/ ProcessExit
    \/ ProcessStart

RaceSpec == InitRace /\ [][NextRace]_vars

\* racing calls of ensure_server_running() with no server running: no
\* process, nothing answers, no lock file or the one a dead sidecar left.
\* Processes are started by the launcher only; a sidecar that has come up
\* stays up, binds a port and, when no live sidecar holds the lock file,
\* writes it
StartLocks ==
    {l \in ObjectLocks : l.pid \in Pids /\ l.port \in Ports /\ l.token = "none"}

InitStart ==
    /\ lock \in RaceLocks
    /\ running = {}
    /\ health = [q \in Ports |-> "refused"]
    /\ sup = [s \in Sups |-> IdleSup]
    /\ call = NoCall
    /\ exchange = NewExchange

NextStart ==
    \/ \E s \in Sups : ensure_server_running(s) /\ sup'[s].port = DEFAULT_PORT
    \/ \E s \in Sups : AliveExists(s)
    \/ \E s \in Sups : AliveRead(s)
    \/ \E s \in Sups : AliveKill(s)
    \/ \E s \in Sups : _remove_stale_lock(s)
    \/ \E s \in Sups : AliveHealth(s)
    \/ \E s \in Sups : _start_server_via_launcher(s)
    \/ \E s \in Sups : _wait_for_health(s)
    \/ \E s \in Sups : Finish(s)
    \/ SidecarWriteLock /\ lock.pid \notin running /\ lock' \in StartLocks
    \/ SidecarServe /\ running # {} /\ health' \in [Ports -> RaceResponses]
                    /\ \A q \in Ports : health[q] = "ok" => health'[q] = "ok"

StartSpec == InitStart /\ [][NextStart]_vars

----------------------------------------------------------------------------
(* Local filtering: the records *)

\* a str is a sequence of characters; None is a value of its own
NoneStr == <<"None">>

\* Optional[List[str]] = None
NoneList == <<NoneStr>>

\* Optional[float] = None, Optional[datetime] = None
NoneNum == -1

\* Optional[MarketOutcome] = None
NoneOutcome == [label |-> NoneStr, price |-> NoneNum, price_change_24h |-> NoneNum]

\* a dict without keys
EmptyDict == [k \in {} |-> 0]

\* {**a, **b}
Merge(a, b) ==
    [k \in DOMAIN a \cup DOMAIN b |-> IF k \in DOMAIN b THEN b[k] ELSE a[k]]

\* str.lower(), character by character
LowerChar(c) ==
    IF c = "A" THEN "a" ELSE IF c = "B" THEN "b" ELSE c

lower(s) ==
    [i \in DOMAIN s |-> LowerChar(s[i])]

\* q in s, for two str
Contains(q, s) ==
    \E i \in 0..(Len(s) - Len(q)) : SubSeq(s, i + 1, i + Len(q)) = q

\* x in l, for a list l
InList(x, l) ==
    \E i \in DOMAIN l : l[i] = x

\* the truth value of an Optional[str]
Truthy(s) ==
    s # NoneStr /\ s # <<>>

\* the truth value of an Optional[List[str]]
TruthyList(l) ==
    l # NoneList /\ l # <<>>

\* val or 0
OrZero(val) ==
    IF val = NoneNum THEN 0 ELSE val

\* getattr(market, outcome_key, None)
OutcomeOf(market, outcome_key) ==
    IF outcome_key \in DOMAIN market THEN market[outcome_key] ELSE NoneOutcome

UnifiedMarket ==
    [title |-> <<"a">>, description |-> NoneStr, category |-> NoneStr,
     tags |-> NoneList, outcomes |-> <<>>,
     volume_24h |-> 0, volume |-> NoneNum, liquidity |-> 0,
     open_interest |-> NoneNum, resolution_date |-> NoneNum,
     yes |-> NoneOutcome, no |-> NoneOutcome,
     up |-> NoneOutcome, down |-> NoneOutcome]

UnifiedEvent ==
    [title |-> <<"a">>, description |-> <<>>, category |-> NoneStr,
     tags |-> NoneList, markets |-> <<>>]

----------------------------------------------------------------------------
(* Local filtering: Exchange.filter_markets *)

\* variant: the bounds themselves are excluded
InRange_exclusive(val, f) ==
    /\ ~("min" \in DOMAIN f /\ val <= f.min)
    /\ ~("max" \in DOMAIN f /\ val >= f.max)

\* if "min" in f and val < f["min"]: continue
\* if "max" in f and val > f["max"]: continue
InRange(val, f) ==
    /\ ~("min" \in DOMAIN f /\ val < f.min)
    /\ ~("max" \in DOMAIN f /\ val > f.max)

\* variant: the bound itself is accepted
InDateRange_inclusive(val, f) ==
    /\ val # NoneNum
    /\ ~("before" \in DOMAIN f /\ val > f.before)
    /\ ~("after" \in DOMAIN f /\ val < f.after)

\* if not val: continue
\* if "before" in f and val >= f["before"]: continue
\* if "after" in f and val <= f["after"]: continue
InDateRange(val, f) ==
    /\ val # NoneNum
    /\ ~("before" \in DOMAIN f /\ val >= f.before)
    /\ ~("after" \in DOMAIN f /\ val <= f.after)

\* variant: the title is searched whatever search_in lists
MarketTextMatch_title(market, params) ==
    LET lower_query == lower(params.text)
        search_in == IF "search_in" \in DOMAIN params THEN params.search_in
                     ELSE <<"title">>
    IN  \/ /\ Truthy(market.title)
           /\ Contains(lower_query, lower(market.title))
        \/ /\ InList("description", search_in) /\ Truthy(market.description)
           /\ Contains(lower_query, lower(market.description))
        \/ /\ InList("category", search_in) /\ Truthy(market.category)
           /\ Contains(lower_query, lower(market.category))
        \/ /\ InList("tags", search_in) /\ TruthyList(market.tags)
           /\ \E i \in DOMAIN market.tags :
                  Contains(lower_query, lower(market.tags[i]))
        \/ /\ InList("outcomes", search_in) /\ market.outcomes # <<>>
           /\ \E i \in DOMAIN market.outcomes :
                  Contains(lower_query, lower(market.outcomes[i].label))

\* the text search of filter_markets: the if/elif chain over search_in
MarketTextMatch(market, params) ==
    LET lower_query == lower(params.text)
        search_in == IF "search_in" \in DOMAIN params THEN params.search_in
                     ELSE <<"title">>
    IN  \/ /\ InList("title", search_in) /\ Truthy(market.title)
           /\ Contains(lower_query, lower(market.title))
        \/ /\ InList("description", search_in) /\ Truthy(market.description)
           /\ Contains(lower_query, lower(market.description))
        \/ /\ InList("category", search_in) /\ Truthy(market.category)
           /\ Contains(lower_query, lower(market.category))
        \/ /\ InList("tags", search_in) /\ TruthyList(market.tags)
           /\ \E i \in DOMAIN market.tags :
                  Contains(lower_query, lower(market.tags[i]))
        \/ /\ InList("outcomes", search_in) /\ market.outcomes # <<>>
           /\ \E i \in DOMAIN market.outcomes :
                  Contains(lower_query, lower(market.outcomes[i].label))

\* variant: a requested tag that occurs inside a tag of the record counts
TagsMatch_substring(tags, query) ==
    /\ TruthyList(tags)
    /\ \E i \in DOMAIN query : \E j \in DOMAIN tags :
           Contains(lower(query[i]), lower(tags[j]))

\* the tags filter (match ANY), both sides lower-cased
TagsMatch(tags, query) ==
    /\ TruthyList(tags)
    /\ \E i \in DOMAIN query : InList(lower(query[i]), [j \in DOMAIN tags |-> lower(tags[j])])

\* variant: a market without the named outcome is let through
PriceMatch_ignore(market, f) ==
    ("outcome" \in DOMAIN f /\ f.outcome # "") =>
        LET outcome == OutcomeOf(market, f.outcome)
        IN  outcome # NoneOutcome => InRange(outcome.price, f)

\* variant: without an outcome key the bounds apply to the yes outcome
PriceMatch_yes(market, f) ==
    LET outcome == OutcomeOf(market, IF "outcome" \in DOMAIN f /\ f.outcome # ""
                                     THEN f.outcome ELSE "yes")
    IN  /\ outcome # NoneOutcome
        /\ InRange(outcome.price, f)

\* the price filter: no constraint without an outcome key
PriceMatch(market, f) ==
    ("outcome" \in DOMAIN f /\ f.outcome # "") =>
        LET outcome == OutcomeOf(market, f.outcome)
        IN  /\ outcome # NoneOutcome
            /\ InRange(outcome.price, f)

\* the price_change_24h filter
PriceChangeMatch(market, f) ==
    ("outcome" \in DOMAIN f /\ f.outcome # "") =>
        LET outcome == OutcomeOf(market, f.outcome)
        IN  /\ outcome # NoneOutcome
            /\ outcome.price_change_24h # NoneNum
            /\ InRange(outcome.price_change_24h, f)

\* variant: a market that matches the text is appended at once
MarketPasses_textfirst(market, params) ==
    IF "text" \in DOMAIN params
    THEN MarketTextMatch(market, params)
    ELSE /\ "category" \in DOMAIN params => market.category = params.category
         /\ "volume_24h" \in DOMAIN params =>
                InRange(market.volume_24h, params.volume_24h)

\* one turn of the loop over markets with a criteria object: every
\* `continue` is a failed conjunct
MarketPasses(market, params) ==
    /\ "text" \in DOMAIN params => MarketTextMatch(market, params)
    /\ "category" \in DOMAIN params => market.category = params.category
    /\ ("tags" \in DOMAIN params /\ params.tags # <<>>) =>
           TagsMatch(market.tags, params.tags)
    /\ "volume_24h" \in DOMAIN params =>
           InRange(market.volume_24h, params.volume_24h)
    /\ "volume" \in DOMAIN params =>
           InRange(OrZero(market.volume), params.volume)
    /\ "liquidity" \in DOMAIN params =>
           InRange(market.liquidity, params.liquidity)
    /\ "open_interest" \in DOMAIN params =>
           InRange(OrZero(market.open_interest), params.open_interest)
    /\ "resolution_date" \in DOMAIN params =>
           InDateRange(market.resolution_date, params.resolution_date)
    /\ "price" \in DOMAIN params => PriceMatch(market, params.price)
    /\ "price_change_24h" \in DOMAIN params =>
           PriceChangeMatch(market, params.price_change_24h)

\* variant of the string branch: the title is compared as written
TitleMatch_cased(record, criteria) ==
    Truthy(record.title) /\ Contains(criteria, record.title)

\* m.title and lower_query in m.title.lower()
TitleMatch(record, criteria) ==
    Truthy(record.title) /\ Contains(lower(criteria), lower(record.title))

\* criteria is a predicate (callable), a str or a criteria object
filter_markets(markets, criteria) ==
    IF criteria.kind = "callable"
    THEN SelectSeq(markets, LAMBDA m : m \in criteria.value)
    ELSE IF criteria.kind = "str"
    THEN SelectSeq(markets, LAMBDA m : TitleMatch(m, criteria.value))
    ELSE SelectSeq(markets, LAMBDA m : MarketPasses(m, criteria.value))

----------------------------------------------------------------------------
(* Local filtering: Exchange.filter_events *)

\* the text search of filter_events
EventTextMatch(event, params) ==
    LET lower_query == lower(params.text)
        search_in == IF "search_in" \in DOMAIN params THEN params.search_in
                     ELSE <<"title">>
    IN  \/ /\ InList("title", search_in) /\ Truthy(event.title)
           /\ Contains(lower_query, lower(event.title))
        \/ /\ InList("description", search_in) /\ Truthy(event.description)
           /\ Contains(lower_query, lower(event.description))
        \/ /\ InList("category", search_in) /\ Truthy(event.category)
           /\ Contains(lower_query, lower(event.category))
        \/ /\ InList("tags", search_in) /\ TruthyList(event.tags)
           /\ \E i \in DOMAIN event.tags :
                  Contains(lower_query, lower(event.tags[i]))

RECURSIVE SumVolume24h(_)
\* variant: the total volume is the volume of the first market
SumVolume24h_first(markets) ==
    IF markets = <<>> THEN 0 ELSE Head(markets).volume_24h

\* sum(m.volume_24h for m in event.markets)
SumVolume24h(markets) ==
    IF markets = <<>> THEN 0
    ELSE Head(markets).volume_24h + SumVolume24h(Tail(markets))

EventPasses(event, params) ==
    /\ "text" \in DOMAIN params => EventTextMatch(event, params)
    /\ "category" \in DOMAIN params => event.category = params.category
    /\ ("tags" \in DOMAIN params /\ params.tags # <<>>) =>
           TagsMatch(event.tags, params.tags)
    /\ "market_count" \in DOMAIN params =>
           InRange(Len(event.markets), params.market_count)
    /\ "total_volume" \in DOMAIN params =>
           InRange(SumVolume24h(event.markets), params.total_volume)

filter_events(events, criteria) ==
    IF criteria.kind = "callable"
    THEN SelectSeq(events, LAMBDA e : e \in criteria.value)
    ELSE IF criteria.kind = "str"
    THEN SelectSeq(events, LAMBDA e : TitleMatch(e, criteria.value))
    ELSE SelectSeq(events, LAMBDA e : EventPasses(e, criteria.value))

----------------------------------------------------------------------------
(* Local filtering: the calls that are made *)

\* the three kinds of criteria
Str(t) == [kind |-> "str", value |-> t]

Dict(params) == [kind |-> "dict", value |-> params]

Callable(accepted) == [kind |-> "callable", value |-> accepted]

\* the lists of at most MaxLen records of S
Lists(S) ==
    UNION {[1..n -> S] : n \in 0..MaxLen}

Vals == 0..MaxVal

\* {}, {min}, {max}, {min, max}
MinMaxes ==
    {EmptyDict} \cup {[min |-> a] : a \in Vals} \cup {[max |-> b] : b \in Vals}
        \cup {[min |-> a, max |-> b] : a, b \in Vals}

\* datetimes, as days
Dates == 1..(MaxVal + 1)

\* {}, {before}, {after}, {before, after}
DateRanges ==
    {EmptyDict} \cup {[before |-> a] : a \in Dates} \cup {[after |-> b] : b \in Dates}
        \cup {[before |-> a, after |-> b] : a, b \in Dates}

\* markets that differ in title and description
TextMarkets ==
    {[UnifiedMarket EXCEPT !.title = t, !.description = d] :
        t \in {<<>>, <<"a">>, <<"A", "b">>, <<"b">>},
        d \in {NoneStr, <<"b", "A">>}}

TextQueries == {<<>>, <<"a">>, <<"A">>, <<"a", "b">>, <<"B">>}

TextCriteria ==
    {Str(t) : t \in TextQueries}
        \cup {Dict([text |-> t]) : t \in TextQueries}
        \cup {Dict([text |-> t, search_in |-> si]) :
                 t \in TextQueries, si \in {<<"title">>, <<"description">>}}

\* the numeric fields of a market; two of them are Optional
NumKeys == {"volume_24h", "volume", "liquidity", "open_interest"}

NumMarkets(k) ==
    {[UnifiedMarket EXCEPT ![k] = v] :
        v \in Vals \cup (IF k \in {"volume", "open_interest"} THEN {NoneNum} ELSE {})}

DateMarkets ==
    {[UnifiedMarket EXCEPT !.resolution_date = d] : d \in Dates \cup {NoneNum}}

\* the outcomes a convenience field holds: none, or one with a price and
\* perhaps a 24h price change
Outcomes ==
    {NoneOutcome}
        \cup {[label |-> <<"a">>, price |-> p, price_change_24h |-> NoneNum] :
                  p \in Vals}
        \cup {[label |-> <<"a">>, price |-> 0, price_change_24h |-> c] :
                  c \in Vals}

\* markets that differ in their yes outcome; none of them has a no outcome
PriceMarkets ==
    {[UnifiedMarket EXCEPT !.yes = y] : y \in Outcomes}

\* a PriceFilter with or without the outcome key
PriceFilters ==
    {Merge(o, f) : o \in {EmptyDict, [outcome |-> "yes"], [outcome |-> "no"]},
                   f \in MinMaxes}

\* a market with the letter a in none of its fields
PlainMarket ==
    [UnifiedMarket EXCEPT !.title = <<"b">>]

\* markets with the letter a in one field, in two, or in none
ScopeMarkets ==
    {PlainMarket,
     [PlainMarket EXCEPT !.title = <<"b", "A">>],
     [PlainMarket EXCEPT !.description = <<"A">>],
     [PlainMarket EXCEPT !.category = <<"a">>],
     [PlainMarket EXCEPT !.tags = <<<<"b">>, <<"A">>>>],
     [PlainMarket EXCEPT !.outcomes =
         <<[label |-> <<"b">>, price |-> 0, price_change_24h |-> NoneNum],
           [label |-> <<"a", "b">>, price |-> 0, price_change_24h |-> NoneNum]>>],
     [PlainMarket EXCEPT !.title = <<"a">>, !.description = <<"a">>],
     [PlainMarket EXCEPT !.description = <<"b">>, !.tags = <<<<"b">>>>]}

\* the search_in lists of a text search
SearchIns ==
    {<<>>, <<"title">>, <<"description">>, <<"category">>, <<"tags">>,
     <<"outcomes">>, <<"tags", "outcomes">>, <<"description", "title">>,
     <<"title", "description", "category", "tags", "outcomes">>}

\* text criteria with and without search_in
ScopeCriteria ==
    {Dict([text |-> t]) : t \in {<<"A">>, <<"b">>}}
        \cup {Dict([text |-> t, search_in |-> si]) :
                 t \in {<<"A">>, <<"b">>}, si \in SearchIns}

\* the tags of a record: none, an empty list, one tag, two tags
TagLists ==
    {NoneList, <<>>, <<<<"a">>>>, <<<<"A", "b">>, <<"b">>>>}

\* the tags a criteria object asks for
TagQueries ==
    {<<>>, <<<<"A">>>>, <<<<"B">>>>, <<<<"b", "B">>, <<"a", "B">>>>}

\* markets that differ in several fields at once
MixMarkets ==
    {[UnifiedMarket EXCEPT !.title = t, !.description = d, !.category = c,
                           !.volume_24h = v] :
        t \in {<<"a">>, <<"b">>}, d \in {NoneStr, <<"a">>},
        c \in {NoneStr, <<"a">>}, v \in {0, MaxVal}}

MixParams ==
    {EmptyDict, [text |-> <<"A">>],
     [text |-> <<"a">>, search_in |-> <<"description">>],
     [search_in |-> <<"description">>],
     [volume_24h |-> [min |-> 1]], [volume_24h |-> [max |-> 1]],
     [text |-> <<"b">>, volume_24h |-> [min |-> 1]],
     [category |-> <<"a">>]}

\* predicates over records, each given by the records it accepts
Predicates(S) ==
    {{}, S, {r \in S : Len(r.title) = 1}, {r \in S : r.description = <<>>}}

\* variant: the rejected markets are removed from the list that was passed
FilterMarketsCall_inplace(markets, criteria) ==
    call' = [fn |-> "filter_markets", markets |-> markets, criteria |-> criteria,
             left |-> filter_markets(markets, criteria),
             result |-> filter_markets(markets, criteria)]

\* filter_markets(markets, criteria) is called and returns; `markets` is the
\* list that was passed and `left` the same list after the call: no
\* statement of the function assigns to it or to a record
FilterMarketsCall(markets, criteria) ==
    call' = [fn |-> "filter_markets", markets |-> markets, criteria |-> criteria,
             left |-> markets,
             result |-> filter_markets(markets, criteria)]

\* the calls of filter_markets that are made
FilterMarkets ==
    /\ call = NoCall
    /\ \/ \E R \in Lists(TextMarkets), C \in TextCriteria :
              FilterMarketsCall(R, C)
       \/ \E k \in NumKeys : \E R \in Lists(NumMarkets(k)), f \in MinMaxes :
              FilterMarketsCall(R, Dict([x \in {k} |-> f]))
       \/ \E R \in Lists(DateMarkets), f \in DateRanges :
              FilterMarketsCall(R, Dict([resolution_date |-> f]))
       \/ \E R \in Lists(ScopeMarkets), C \in ScopeCriteria :
              FilterMarketsCall(R, C)
       \/ \E R \in Lists(TextMarkets), P \in Predicates(TextMarkets) :
              FilterMarketsCall(R, Callable(P))
       \/ \E R \in Lists({[UnifiedMarket EXCEPT !.tags = l] : l \in TagLists}),
             q \in TagQueries :
              FilterMarketsCall(R, Dict([tags |-> q]))
       \/ \E k \in {"price", "price_change_24h"} :
              \E R \in Lists(PriceMarkets), f \in PriceFilters :
                  FilterMarketsCall(R, Dict([x \in {k} |-> f]))
    /\ UNCHANGED <<lock, running, health, sup, exchange>>

\* filter_markets(filter_markets(markets, first), second)
FilterMarketsTwice ==
    /\ call = NoCall
    /\ \E R \in Lists(MixMarkets), C1 \in MixParams, C2 \in MixParams :
         call' = [fn |-> "filter_markets_twice", markets |-> R,
                  first |-> C1, second |-> C2,
                  result |-> filter_markets(filter_markets(R, Dict(C1)), Dict(C2))]
    /\ UNCHANGED <<lock, running, health, sup, exchange>>

\* markets that differ in their 24h volume
VolMarkets ==
    {[UnifiedMarket EXCEPT !.volume_24h = v] : v \in {1, MaxVal}}

\* events that differ in the markets they own
CountEvents ==
    {[UnifiedEvent EXCEPT !.markets = ms] : ms \in Lists(VolMarkets)}

TextEvents ==
    {[UnifiedEvent EXCEPT !.title = t, !.description = d] :
        t \in {<<>>, <<"a">>, <<"A", "b">>}, d \in {<<>>, <<"b">>}}

\* events with the letter a in one field, in two, or in none
ScopeEvents ==
    {[UnifiedEvent EXCEPT !.title = <<"b">>],
     [UnifiedEvent EXCEPT !.title = <<"b", "A">>],
     [UnifiedEvent EXCEPT !.title = <<"b">>, !.description = <<"A">>],
     [UnifiedEvent EXCEPT !.title = <<"b">>, !.category = <<"a">>],
     [UnifiedEvent EXCEPT !.title = <<"b">>, !.tags = <<<<"b">>, <<"A">>>>],
     [UnifiedEvent EXCEPT !.title = <<"a">>, !.description = <<"a">>]}

MixEvents ==
    {[UnifiedEvent EXCEPT !.title = t, !.description = d, !.markets = ms] :
        t \in {<<"a">>, <<"b">>}, d \in {<<>>, <<"a">>},
        ms \in {<<>>, <<[UnifiedMarket EXCEPT !.volume_24h = 1]>>}}

MixEventParams ==
    {EmptyDict, [text |-> <<"A">>],
     [text |-> <<"a">>, search_in |-> <<"description">>],
     [search_in |-> <<"description">>],
     [market_count |-> [min |-> 1]], [market_count |-> [max |-> 0]],
     [total_volume |-> [min |-> 1], text |-> <<"b">>]}

\* filter_events(events, criteria) is called and returns
FilterEventsCall(events, criteria) ==
    call' = [fn |-> "filter_events", events |-> events, criteria |-> criteria,
             left |-> events,
             result |-> filter_events(events, criteria)]

\* the calls of filter_events that are made
FilterEvents ==
    /\ call = NoCall
    /\ \/ \E R \in Lists(TextEvents), C \in TextCriteria :
              FilterEventsCall(R, C)
       \/ \E R \in Lists(ScopeEvents), C \in ScopeCriteria :
              FilterEventsCall(R, C)
       \/ \E R \in Lists(TextEvents), P \in Predicates(TextEvents) :
              FilterEventsCall(R, Callable(P))
       \/ \E R \in Lists({[UnifiedEvent EXCEPT !.tags = l] : l \in TagLists}),
             q \in TagQueries :
              FilterEventsCall(R, Dict([tags |-> q]))
       \/ \E R \in Lists(CountEvents), f \in MinMaxes :
              FilterEventsCall(R, Dict([market_count |-> f]))
       \/ \E R \in Lists(CountEvents), f \in MinMaxes :
              FilterEventsCall(R, Dict([total_volume |-> f]))
    /\ UNCHANGED <<lock, running, health, sup, exchange>>

\* filter_events(filter_events(events, first), second)
FilterEventsTwice ==
    /\ call = NoCall
    /\ \E R \in Lists(MixEvents), C1 \in MixEventParams, C2 \in MixEventParams :
         call' = [fn |-> "filter_events_twice", events |-> R,
                  first |-> C1, second |-> C2,
                  result |-> filter_events(filter_events(R, Dict(C1)), Dict(C2))]
    /\ UNCHANGED <<lock, running, health, sup, exchange>>

----------------------------------------------------------------------------
(* Local filtering: MarketList.match *)

\* search_in: Optional[List[...]] = None
NoneFields == <<"None">>

\* one market against the fields of search_in, the first hit counts
MatchAny(m, lower_query, search_in) ==
    \E i \in DOMAIN search_in :
        \/ /\ search_in[i] = "title" /\ Truthy(m.title)
           /\ Contains(lower_query, lower(m.title))
        \/ /\ search_in[i] = "description" /\ Truthy(m.description)
           /\ Contains(lower_query, lower(m.description))
        \/ /\ search_in[i] = "category" /\ Truthy(m.category)
           /\ Contains(lower_query, lower(m.category))
        \/ /\ search_in[i] = "tags" /\ TruthyList(m.tags)
           /\ \E j \in DOMAIN m.tags : Contains(lower_query, lower(m.tags[j]))
        \/ /\ search_in[i] = "outcomes" /\ m.outcomes # <<>>
           /\ \E j \in DOMAIN m.outcomes :
                  Contains(lower_query, lower(m.outcomes[j].label))

\* f"{m.title[:70]}{'...' if len(m.title) > 70 else ''}"
Display(title) ==
    IF Len(title) > TitleWidth
    THEN SubSeq(title, 1, TitleWidth) \o <<".", ".", ".">>
    ELSE title

\* variant: the first match is returned when there are several
MatchResult_first(query, matches) ==
    IF Len(matches) = 0
    THEN [raises |-> "ValueError", message |-> "No markets matching",
          query |-> query]
    ELSE [raises |-> "none", value |-> matches[1]]

\* what match() does with the list of matches
MatchResult(query, matches) ==
    IF Len(matches) = 0
    THEN [raises |-> "ValueError", message |-> "No markets matching",
          query |-> query]
    ELSE IF Len(matches) > 1
    THEN [raises |-> "ValueError", message |-> "Multiple markets matching",
          query |-> query, count |-> Len(matches),
          titles |-> [i \in DOMAIN matches |-> Display(matches[i].title)]]
    ELSE [raises |-> "none", value |-> matches[1]]

RECURSIVE matches_nobreak(_, _, _)
\* variant: a market is appended once for every field it matches in
matches_nobreak(self, lower_query, fields) ==
    IF self = <<>> THEN <<>>
    ELSE LET m == Head(self)
             hits == Cardinality({i \in DOMAIN fields :
                                     MatchAny(m, lower_query, <<fields[i]>>)})
         IN  [k \in 1..hits |-> m] \o matches_nobreak(Tail(self), lower_query, fields)

\* the list `matches` of match(): a market is appended at its first hit and
\* the loop over the fields is left
matches(self, lower_query, fields) ==
    SelectSeq(self, LAMBDA m : MatchAny(m, lower_query, fields))

\* if search_in is None: search_in = ["title"]
MatchFields(search_in) ==
    IF search_in = NoneFields THEN <<"title">> ELSE search_in

match(self, query, search_in) ==
    MatchResult(query, matches(self, lower(query), MatchFields(search_in)))

\* a title longer than the display width
LongTitle == [i \in 1..(TitleWidth + 1) |-> "b"]

MatchMarkets ==
    {[UnifiedMarket EXCEPT !.title = t, !.description = d] :
        t \in {<<"a">>, <<"A", "b">>, LongTitle}, d \in {NoneStr, <<"b">>}}

\* markets.match(query, search_in) is called and returns or raises
Match ==
    /\ call = NoCall
    /\ \/ \E R \in Lists(MatchMarkets), q \in {<<>>, <<"a">>, <<"B">>, <<"c">>},
             si \in {NoneFields, <<>>, <<"title">>, <<"description">>,
                     <<"description", "title">>} :
            call' = [fn |-> "match", self |-> R, query |-> q, search_in |-> si,
                     matches |-> matches(R, lower(q), MatchFields(si)),
                     result |-> match(R, q, si)]
       \/ \E R \in Lists(ScopeMarkets), q \in {<<"A">>, <<"b">>}, si \in SearchIns :
            call' = [fn |-> "match", self |-> R, query |-> q, search_in |-> si,
                     matches |-> matches(R, lower(q), MatchFields(si)),
                     result |-> match(R, q, si)]
    /\ UNCHANGED <<lock, running, health, sup, exchange>>

----------------------------------------------------------------------------
(* The response envelope: Exchange._handle_response *)

\* what the "error" key of an envelope holds: a str, an object with or
\* without a message, or null
ErrorKinds == {"str", "object", "object without message", "null"}

Error(kind) ==
    IF kind = "str" THEN [type |-> "str", value |-> "boom"]
    ELSE IF kind = "object"
    THEN [type |-> "dict", value |-> [message |-> "bad", code |-> "E"]]
    ELSE IF kind = "object without message"
    THEN [type |-> "dict", value |-> [code |-> "E"]]
    ELSE [type |-> "none"]

\* an envelope; each of the keys success, error and data may be missing
Envelope(success, error, data) ==
    Merge(Merge(IF success = "missing" THEN EmptyDict
                ELSE [success |-> (success = "true")],
                IF error = "missing" THEN EmptyDict
                ELSE [error |-> Error(error)]),
          IF data = NoneNum THEN EmptyDict ELSE [data |-> data])

\* variant: the data is handed out whatever success says
_handle_response_unwrapped(response) ==
    [raises |-> "none",
     value |-> IF "data" \in DOMAIN response THEN response.data ELSE NoneNum]

_handle_response(response) ==
    IF ~("success" \in DOMAIN response /\ response.success)
    THEN LET error == IF "error" \in DOMAIN response THEN response.error
                      ELSE [type |-> "dict", value |-> EmptyDict]
         IN  IF error.type = "str"
             THEN [raises |-> "Exception", message |-> error.value]
             ELSE IF error.type = "none"
             THEN [raises |-> "AttributeError"]
             ELSE [raises |-> "Exception",
                   message |-> IF "message" \in DOMAIN error.value
                               THEN error.value.message ELSE "Unknown error"]
    ELSE [raises |-> "none",
          value |-> IF "data" \in DOMAIN response THEN response.data ELSE NoneNum]

\* a response of the sidecar is handled
HandleResponse ==
    /\ call = NoCall
    /\ \E success \in {"missing", "true", "false"},
          error \in ErrorKinds \cup {"missing"}, data \in Vals \cup {NoneNum} :
         LET response == Envelope(success, error, data)
         IN  call' = [fn |-> "_handle_response", response |-> response,
                      result |-> _handle_response(response)]
    /\ UNCHANGED <<lock, running, health, sup, exchange>>

\* the caller takes the result or the exception
FilterReturn ==
    /\ call # NoCall
    /\ call' = NoCall
    /\ UNCHANGED <<lock, running, health, sup, exchange>>

InitFilter ==
    /\ lock = NoLockFile
    /\ running = {}
    /\ health = [q \in Ports |-> "refused"]
    /\ sup = [s \in Sups |-> IdleSup]
    /\ call = NoCall
    /\ exchange = NewExchange

NextFilter ==
    \/ FilterMarkets
    \/ FilterMarketsTwice
    \/ FilterEvents
    \/ FilterEventsTwice
    \/ Match
    \/ HandleResponse
    \/ FilterReturn

FilterSpec == InitFilter /\ [][NextFilter]_vars

----------------------------------------------------------------------------
(* The market cache: Exchange.load_markets *)

\* the markets the exchange may list
ListedMarkets ==
    {[market_id |-> id, title |-> title] :
        id \in MarketIds, title \in {<<"a">>, <<"b">>}}

\* for market in markets: self.markets[market.market_id] = market,
\* starting from an empty dict: the last market with an id stays
Indexed(markets) ==
    [id \in MarketIds |->
        LET at == {i \in DOMAIN markets : markets[i].market_id = id}
        IN  IF at = {} THEN <<"None">>
            ELSE markets[CHOOSE i \in at : \A j \in at : j <= i].title]

\* variant: the flag _loaded_markets is not looked at
load_markets_always(reload) ==
    /\ exchange.requests < MaxCalls
    /\ \E fetched \in Lists(ListedMarkets) :
         exchange' = [exchange EXCEPT
             !.markets = Indexed(fetched), !._loaded_markets = TRUE,
             !.requests = @ + 1,
             !.last = [called |-> TRUE, reload |-> reload, raises |-> FALSE,
                       fetched |-> fetched, ret |-> Indexed(fetched)]]
    /\ UNCHANGED <<lock, running, health, sup, call>>

\* load_markets(reload): the cached dict, or one fetch_markets() request that
\* raises or returns whatever the exchange lists at that moment
load_markets(reload) ==
    /\ IF exchange._loaded_markets /\ ~reload
       THEN exchange' = [exchange EXCEPT
                !.last = [called |-> TRUE, reload |-> reload, raises |-> FALSE,
                          fetched |-> <<>>, ret |-> exchange.markets]]
       ELSE /\ exchange.requests < MaxCalls
            /\ \/ exchange' = [exchange EXCEPT
                      !.requests = @ + 1,
                      !.last = [called |-> TRUE, reload |-> reload,
                                raises |-> TRUE, fetched |-> <<>>,
                                ret |-> NoMarkets]]
               \/ \E fetched \in Lists(ListedMarkets) :
                      exchange' = [exchange EXCEPT
                          !.markets = Indexed(fetched),
                          !._loaded_markets = TRUE,
                          !.requests = @ + 1,
                          !.last = [called |-> TRUE, reload |-> reload,
                                    raises |-> FALSE, fetched |-> fetched,
                                    ret |-> Indexed(fetched)]]
    /\ UNCHANGED <<lock, running, health, sup, call>>

NextLoad ==
    \E reload \in BOOLEAN : load_markets(reload)

LoadSpec == InitFilter /\ [][NextLoad]_vars

----------------------------------------------------------------------------
(* Properties of the Supervisor *)

InEnsure(s) ==
    sup[s].mode \in {"ensure", "construct"} /\ sup[s].pc \notin {"idle", "token"}

\* C1: a call of ensure_server_running() that finds the sidecar healthy
\* (lock file, recorded process running, /health ok on the recorded port)
\* never runs the launcher and never enters the polling loop, at every
\* repetition of the call
C1_HealthyShortCircuits ==
    \A s \in Sups :
        (InEnsure(s) /\ sup[s].callState = "Healthy") =>
            /\ sup[s].launches = 0
            /\ sup[s].launch = "none"
            /\ ~sup[s].polled
            /\ sup[s].pc \notin {"launch", "wait", "raised"}

C1_Witness ==
    \E s \in Sups :
        /\ sup[s].mode = "ensure" /\ sup[s].pc = "returned"
        /\ sup[s].callState = "Healthy"
        /\ sup[s].port # LockPort(lock)

\* C2: is_server_alive() on a lock file whose pid is not running returns
\* False and leaves no lock file; called with no lock file it returns False
\* and there is still none
C2_StaleReclaimed ==
    \A s \in Sups :
        (sup[s].mode = "alive" /\ sup[s].callState \in {"StaleLock", "NoLock"}) =>
            /\ sup[s].pc # "raised"
            /\ sup[s].pc = "returned" =>
                   (sup[s].ret = "false" /\ lock = NoLockFile)

C2_Witness ==
    \E s \in Sups :
        /\ sup[s].mode = "alive" /\ sup[s].pc = "returned"
        /\ sup[s].callState = "StaleLock"
        /\ sup[s].lockAtCall.kind = "object"
        /\ lock = NoLockFile

\* the three conditions of is_server_alive(), on the lock file it was
\* called with
AliveExpected(s) ==
    /\ sup[s].lockAtCall.kind = "object"
    /\ sup[s].lockAtCall.pid \in running
    /\ health[IF sup[s].lockAtCall.port = NoPort THEN DEFAULT_PORT
              ELSE sup[s].lockAtCall.port] = "ok"

\* C3: is_server_alive() returns True exactly when the lock file exists,
\* its pid is running and /health on its port (the default port when it
\* records none) is 200 with status "ok"; with any other answer it returns
\* False, and it raises nothing for a lock file that records a process id
C3_AliveIffThree ==
    \A s \in Sups :
        sup[s].mode = "alive" =>
            /\ sup[s].pc = "returned" =>
                   (sup[s].ret = "true" <=> AliveExpected(s))
            /\ sup[s].pc = "returned" => sup[s].ret \in {"true", "false"}
            /\ (Usable(sup[s].lockAtCall) \/ sup[s].lockAtCall = NoLockFile) =>
                   sup[s].pc # "raised"

C3_Witness ==
    \E s \in Sups :
        /\ sup[s].mode = "alive" /\ sup[s].pc = "returned"
        /\ sup[s].ret = "false"
        /\ sup[s].callState = "LiveUnresponsive"
        /\ health[LockPort(lock)] = "other_status"
        /\ lock.port = NoPort

\* C4 as stated: is_server_alive() leaves the lock file as it found it in
\* every state it can observe
C4_NeverMutates ==
    \A s \in Sups :
        (sup[s].mode = "alive" /\ sup[s].pc \in {"returned", "raised"}) =>
            lock = sup[s].lockAtCall

\* C4 as amended: is_server_alive() leaves the lock file as it found it in
\* every state but StaleLock (recorded pid not running), where it deletes it
C4_MutatesOnlyStale ==
    \A s \in Sups :
        (sup[s].mode = "alive" /\ sup[s].pc \in {"returned", "raised"}) =>
            IF sup[s].callState = "StaleLock"
            THEN lock = NoLockFile
            ELSE lock = sup[s].lockAtCall

C4_Witness ==
    \E s \in Sups :
        /\ sup[s].mode = "alive" /\ sup[s].pc = "returned"
        /\ sup[s].callState = "LiveUnresponsive"
        /\ lock = sup[s].lockAtCall
        /\ lock.kind = "object"

\* C5: on a lock file that is unreadable, is no JSON, is no JSON object or
\* has no usable pid, is_server_alive() returns False without raising and
\* ensure_server_running() goes on to the launcher
C5_MalformedTolerated ==
    \A s \in Sups :
        sup[s].callState = "Malformed" =>
            /\ (sup[s].mode = "alive" /\ sup[s].pc = "returned") =>
                   sup[s].ret = "false"
            /\ sup[s].pc = "raised" =>
                   (sup[s].mode # "alive" /\ sup[s].launches > 0)

\* C6: when ensure_server_running() returns, a parseable lock file exists
\* and /health answers ok on the port that lock file records
C6_ReturnImpliesHealthy ==
    \A s \in Sups :
        (sup[s].mode = "ensure" /\ sup[s].pc = "returned") =>
            /\ lock.kind = "object"
            /\ _check_health(LockPort(lock))

\* C7: a call on the default port whose launcher succeeded and during
\* whose polling the sidecar was healthy on the port its lock file records
\* (another port than the default) does not end in the health timeout
C7_DiscoveredPortPolled ==
    \A s \in Sups :
        ~(/\ sup[s].pc = "raised"
          /\ sup[s].err = "health_timeout"
          /\ sup[s].launch = "ok"
          /\ sup[s].port = DEFAULT_PORT
          /\ sup[s].missedOk)

\* C8: a launcher that is not found, exits non-zero or times out makes
\* ensure_server_running() raise at once: one invocation per call, no
\* retry, and no poll after the failed launch
C8_LaunchFailureIsFatal ==
    \A s \in Sups :
        /\ sup[s].launches <= 1
        /\ sup[s].launch \in {"notfound", "nonzero", "timeout"} =>
               /\ sup[s].pc = "raised"
               /\ sup[s].err = "launch"
               /\ sup[s].launches = 1
               /\ ~sup[s].polled
        /\ sup[s].polled => sup[s].launch = "ok"

C8_Witness ==
    \E s \in Sups :
        /\ sup[s].mode = "ensure" /\ sup[s].pc = "raised"
        /\ sup[s].launch = "nonzero"
        /\ sup[s].launches = 1

\* C9: every call of ensure_server_running() ends, by returning or by
\* raising; the polling loop ends with the budget
C9_EnsureTerminates ==
    \A s \in Solo :
        (sup[s].mode = "ensure" /\ sup[s].pc # "idle")
            ~> (sup[s].mode = "ensure" /\ sup[s].pc \in {"returned", "raised"})

C9_Witness ==
    \E s \in Solo :
        /\ sup[s].mode = "ensure" /\ sup[s].pc = "raised"
        /\ sup[s].err = "health_timeout"
        /\ sup[s].elapsed = PollBudget
        /\ \A q \in Ports : health[q] # "ok"

\* C10: in a constructor with auto-start, once ensure_server_running() has
\* returned nothing raises any more, and the port of the API base URL is
\* the one get_running_port() takes from the lock file: the recorded port,
\* whatever port was configured
C10_ApiPortFromLock ==
    [][\A s \in Sups :
          sup[s].mode = "construct" =>
              /\ sup[s].pc = "get_port" =>
                     /\ sup'[s].pc \in {"get_port", "token"}
                     /\ sup'[s].pc = "token" =>
                            sup'[s].apiPort =
                                IF lock.kind # "object" THEN NoPort
                                ELSE IF lock.port = NoPort THEN DEFAULT_PORT
                                ELSE lock.port
              /\ sup[s].pc = "token" =>
                     /\ sup'[s].pc \in {"token", "returned"}
                     /\ sup'[s].mode = "construct"
                     /\ sup'[s].apiPort = sup[s].apiPort]_vars

C10_Witness ==
    \E s \in Sups :
        /\ sup[s].mode = "construct" /\ sup[s].pc = "returned"
        /\ sup[s].port = DEFAULT_PORT
        /\ sup[s].apiPort = DEFAULT_PORT + 1

\* C11: a constructed handle whose lock file holds an accessToken sends
\* that token as x-pmxt-access-token with every API call; when the lock
\* file holds none (or there is no parseable lock file) no such header is
\* set or sent
C11_TokenHeader ==
    \A s \in Sups :
        (sup[s].mode \in {"construct", "construct_manual"}
            /\ sup[s].pc = "returned") =>
            /\ sup[s].hdr = IF lock.kind = "object" THEN lock.token ELSE "none"
            /\ sup[s].sent \in {"unsent", sup[s].hdr}

C11_Witness ==
    \E s \in Sups :
        /\ sup[s].mode = "construct" /\ sup[s].pc = "returned"
        /\ lock.token = "tok"
        /\ sup[s].sent = "tok"
        /\ sup[s].attempt > 0

\* C12: Supervisors racing through is_server_alive() on one stale lock
\* file: a step that finds the file already gone (read_text() after
\* exists(), or unlink()) raises nothing and the call returns False, and a
\* Supervisor that goes to delete the file returns False and leaves no lock
\* file
C12_DeletionRaceHarmless ==
    [][\A s \in Sups :
         ((\/ sup[s].pc = "alive_unlink"
           \/ sup[s].pc = "alive_read" /\ lock = NoLockFile)
          /\ sup'[s] # sup[s]) =>
             /\ sup'[s].pc = "returned"
             /\ sup'[s].ret = "false"
             /\ sup'[s].err = "none"
             /\ lock' = NoLockFile]_vars

\* both saw the stale lock file, both went to delete it, one found it gone
C12_Witness ==
    /\ \A s \in Sups :
          /\ sup[s].mode = "alive" /\ sup[s].pc = "returned"
          /\ sup[s].callState = "StaleLock"
          /\ sup[s].rpid # NoPid
          /\ sup[s].ret = "false"
    /\ \E s \in Sups : sup[s].fnf
    /\ \E s \in Sups : ~sup[s].fnf
    /\ lock = NoLockFile

\* C13: when all Supervisors race through ensure_server_running() with no
\* server running and one sidecar comes up healthy while a caller is still
\* polling, no caller fails with the health timeout
C13_RacersConverge ==
    (\A s \in Sups : sup[s].mode = "ensure" /\ sup[s].launch = "ok") =>
        \A s \in Sups :
            ~(sup[s].pc = "raised" /\ sup[s].err = "health_timeout"
                /\ sup[s].missedOk)

----------------------------------------------------------------------------
(* Properties of the local filters *)

\* the two criteria objects constrain different keys or agree where they
\* overlap; search_in belongs to the text constraint
Compatible(C1, C2) ==
    LET T(C) == DOMAIN C \cap {"text", "search_in"}
    IN  /\ \A k \in DOMAIN C1 \cap DOMAIN C2 : C1[k] = C2[k]
        /\ T(C1) = {} \/ T(C2) = {} \/ T(C1) = T(C2)

\* what one call with the union of the two criteria objects returns
FilteredOnce ==
    IF call.fn = "filter_markets_twice"
    THEN filter_markets(call.markets, Dict(Merge(call.first, call.second)))
    ELSE filter_events(call.events, Dict(Merge(call.first, call.second)))

\* C15 as stated: for all criteria objects C1 and C2, filtering with their
\* union gives what filtering with C1 and then with C2 gives
C15_ComposeAny ==
    call.fn \in {"filter_markets_twice", "filter_events_twice"} =>
        FilteredOnce = call.result

\* C15: for criteria objects C1 and C2 that agree on the keys they share
\* (search_in counting as part of the text constraint), filtering with their
\* union gives what filtering with C1 and then with C2 gives, for
\* filter_markets and for filter_events
C15_ComposeCompatible ==
    (/\ call.fn \in {"filter_markets_twice", "filter_events_twice"}
     /\ Compatible(call.first, call.second)) =>
        FilteredOnce = call.result

C15_Witness ==
    /\ call.fn = "filter_events_twice"
    /\ Compatible(call.first, call.second)
    /\ DOMAIN call.first \cap DOMAIN call.second = {}
    /\ "text" \in DOMAIN call.first /\ "market_count" \in DOMAIN call.second
    /\ call.result = <<>>
    /\ Len(filter_events(call.events, Dict(call.first))) = 1
    /\ Len(filter_events(call.events, Dict(call.second))) = 1

\* the records of the call and the filter of the call with other criteria
Records ==
    IF call.fn = "filter_markets" THEN call.markets ELSE call.events

FilteredBy(criteria) ==
    IF call.fn = "filter_markets" THEN filter_markets(call.markets, criteria)
    ELSE filter_events(call.events, criteria)

\* t occurs in the title, whatever the case of the letters
TitleHas(record, t) ==
    /\ record.title \notin {NoneStr, <<>>}
    /\ \E off \in 0..(Len(record.title) - Len(t)) :
           \A j \in 1..Len(t) :
               LowerChar(record.title[off + j]) = LowerChar(t[j])

\* C16: filtering with the string t returns what filtering with
\* {text: t, search_in: ["title"]} and with {text: t} returns: the records
\* whose title holds t, letter case ignored, in the order of the list
C16_FreeTextIsTitleSearch ==
    (call.fn \in {"filter_markets", "filter_events"}
        /\ call.criteria.kind = "str") =>
        LET t == call.criteria.value
        IN  /\ call.result = FilteredBy(Dict([text |-> t, search_in |-> <<"title">>]))
            /\ call.result = FilteredBy(Dict([text |-> t]))
            /\ call.result = SelectSeq(Records, LAMBDA r : TitleHas(r, t))

C16_Witness ==
    /\ call.fn = "filter_markets"
    /\ call.criteria = Str(<<"B">>)
    /\ Len(call.markets) = 2 /\ Len(call.result) = 1
    /\ call.result[1].title = <<"A", "b">>
    /\ \E i \in DOMAIN call.markets :
          /\ call.markets[i].title = <<"a">>
          /\ call.markets[i].description = <<"b", "A">>

\* C17: match returns the one market that matches; with no match it raises
\* with a message that names the query; with two or more it raises with a
\* message that lists the title of every match, cut to the display width,
\* and returns none of them
C17_MatchThreeCases ==
    call.fn = "match" =>
        LET fields == IF call.search_in = NoneFields THEN <<"title">>
                      ELSE call.search_in
            hits == SelectSeq(call.self,
                        LAMBDA m : MatchAny(m, lower(call.query), fields))
            r == call.result
        IN  /\ Len(hits) = 1 => (r.raises = "none" /\ r.value = hits[1])
            /\ Len(hits) = 0 =>
                   /\ r.raises = "ValueError"
                   /\ r.message = "No markets matching"
                   /\ r.query = call.query
            /\ Len(hits) >= 2 =>
                   /\ r.raises = "ValueError"
                   /\ r.message = "Multiple markets matching"
                   /\ r.query = call.query
                   /\ Len(r.titles) = Len(hits)
                   /\ \A i \in DOMAIN hits :
                         LET title == hits[i].title
                         IN  IF Len(title) <= TitleWidth THEN r.titles[i] = title
                             ELSE /\ Len(r.titles[i]) = TitleWidth + 3
                                  /\ \A j \in 1..TitleWidth : r.titles[i][j] = title[j]

C17_Witness ==
    /\ call.fn = "match"
    /\ call.result.raises = "ValueError"
    /\ call.result.message = "Multiple markets matching"
    /\ call.query = <<"B">>
    /\ Len(call.result.titles) = 2
    /\ call.self[1].title = LongTitle
    /\ call.result.titles[1] # LongTitle
    /\ SubSeq(call.result.titles[1], 1, TitleWidth) = SubSeq(LongTitle, 1, TitleWidth)
    /\ call.result.titles[2] = <<"A", "b">>

\* the value a numeric constraint is compared with
NumValue(m, k) ==
    IF m[k] = NoneNum THEN 0 ELSE m[k]

\* C18: a market passes a volume_24h, volume, liquidity or open_interest
\* constraint exactly when its value is >= min (if there is a min) and <= max
\* (if there is a max)
C18_InclusiveBounds ==
    \A k \in NumKeys :
        (/\ call.fn = "filter_markets"
         /\ call.criteria.kind = "dict"
         /\ DOMAIN call.criteria.value = {k}) =>
            LET f == call.criteria.value[k]
            IN  call.result = SelectSeq(call.markets, LAMBDA m :
                    /\ "min" \in DOMAIN f => NumValue(m, k) >= f.min
                    /\ "max" \in DOMAIN f => NumValue(m, k) <= f.max)

C18_Witness ==
    /\ call.fn = "filter_markets"
    /\ call.criteria = Dict([volume |-> [min |-> 1, max |-> 2]])
    /\ Len(call.markets) = 2 /\ call.result = call.markets
    /\ call.markets[1].volume = 1 /\ call.markets[2].volume = 2

RECURSIVE SumFirst(_, _)
\* the 24h volumes of the first n markets, added up
SumFirst(markets, n) ==
    IF n = 0 THEN 0 ELSE SumFirst(markets, n - 1) + markets[n].volume_24h

\* C19: an event passes total_volume exactly when the sum of volume_24h of
\* its markets lies within min and max, bounds included, and market_count
\* exactly when the number of its markets does; without markets both are 0
C19_EventTotals ==
    /\ (/\ call.fn = "filter_events"
        /\ call.criteria.kind = "dict"
        /\ DOMAIN call.criteria.value = {"total_volume"}) =>
           LET f == call.criteria.value.total_volume
           IN  call.result = SelectSeq(call.events, LAMBDA e :
                   LET total == SumFirst(e.markets, Len(e.markets))
                   IN  /\ "min" \in DOMAIN f => total >= f.min
                       /\ "max" \in DOMAIN f => total <= f.max)
    /\ (/\ call.fn = "filter_events"
        /\ call.criteria.kind = "dict"
        /\ DOMAIN call.criteria.value = {"market_count"}) =>
           LET f == call.criteria.value.market_count
           IN  call.result = SelectSeq(call.events, LAMBDA e :
                   /\ "min" \in DOMAIN f => Len(e.markets) >= f.min
                   /\ "max" \in DOMAIN f => Len(e.markets) <= f.max)

C19_Witness ==
    /\ call.fn = "filter_events"
    /\ call.criteria = Dict([total_volume |-> [min |-> 2, max |-> 2]])
    /\ Len(call.events) = 2 /\ Len(call.result) = 1
    /\ call.events[1].markets = <<>>
    /\ Len(call.result[1].markets) = 2

\* C20: a market passes `before` exactly when it has a resolution date
\* strictly earlier than the bound and `after` exactly when it has one
\* strictly later; a date equal to the bound is rejected
C20_DateStrict ==
    (/\ call.fn = "filter_markets"
     /\ call.criteria.kind = "dict"
     /\ DOMAIN call.criteria.value = {"resolution_date"}) =>
        LET f == call.criteria.value.resolution_date
        IN  call.result = SelectSeq(call.markets, LAMBDA m :
                /\ m.resolution_date \in Dates
                /\ "before" \in DOMAIN f => m.resolution_date < f.before
                /\ "after" \in DOMAIN f => m.resolution_date > f.after)

C20_Witness ==
    /\ call.fn = "filter_markets"
    /\ call.criteria = Dict([resolution_date |-> [before |-> 2]])
    /\ Len(call.markets) = 2 /\ Len(call.result) = 1
    /\ call.markets[1].resolution_date = 2
    /\ call.result[1].resolution_date = 1

\* C21: a price or price_change_24h constraint that names an outcome keeps
\* exactly the markets that have this outcome with a value within min and
\* max, bounds included; a market without the outcome, or without a 24h
\* change on it, is rejected
C21_OutcomeSelected ==
    \A k \in {"price", "price_change_24h"} :
        (/\ call.fn = "filter_markets"
         /\ call.criteria.kind = "dict"
         /\ DOMAIN call.criteria.value = {k}
         /\ "outcome" \in DOMAIN call.criteria.value[k]) =>
            LET f == call.criteria.value[k]
            IN  call.result = SelectSeq(call.markets, LAMBDA m :
                    /\ m[f.outcome] # NoneOutcome
                    /\ LET val == IF k = "price" THEN m[f.outcome].price
                                  ELSE m[f.outcome].price_change_24h
                       IN  /\ val \in Vals
                           /\ "min" \in DOMAIN f => val >= f.min
                           /\ "max" \in DOMAIN f => val <= f.max)

C21_Witness ==
    /\ call.fn = "filter_markets"
    /\ call.criteria = Dict([price |-> [outcome |-> "yes", min |-> 1, max |-> 2]])
    /\ Len(call.markets) = 2 /\ Len(call.result) = 1
    /\ call.markets[1].yes = NoneOutcome
    /\ call.result[1].yes.price = 1

\* C30: a price or price_change_24h constraint without an outcome key keeps
\* every market, whatever its min and max are
C30_NoSelectorNoConstraint ==
    \A k \in {"price", "price_change_24h"} :
        (/\ call.fn = "filter_markets"
         /\ call.criteria.kind = "dict"
         /\ DOMAIN call.criteria.value = {k}
         /\ "outcome" \notin DOMAIN call.criteria.value[k]) =>
            /\ call.result = call.markets
            /\ call.result = filter_markets(call.markets, Dict(EmptyDict))

C30_Witness ==
    /\ call.fn = "filter_markets"
    /\ call.criteria = Dict([price |-> [min |-> 1, max |-> 1]])
    /\ Len(call.markets) = 2 /\ call.result = call.markets
    /\ call.markets[1].yes = NoneOutcome
    /\ call.markets[2].yes.price = 2

\* the strings a record holds in one of the searchable fields
FieldTexts(record, field) ==
    IF field \in {"title", "description", "category"}
    THEN {record[field]} \ {NoneStr, <<>>}
    ELSE IF field = "tags"
    THEN IF record.tags = NoneList THEN {}
         ELSE {record.tags[i] : i \in DOMAIN record.tags}
    ELSE IF field = "outcomes" /\ "outcomes" \in DOMAIN record
    THEN {record.outcomes[i].label : i \in DOMAIN record.outcomes}
    ELSE {}

\* t occurs in s when letters are compared without their case
Occurs(t, s) ==
    \E i \in 0..(Len(s) - Len(t)) :
        \A j \in 1..Len(t) : LowerChar(s[i + j]) = LowerChar(t[j])

\* C22: a text constraint keeps exactly the records in which the text
\* occurs, ignoring case, in a field that search_in lists (for tags and
\* outcomes: in one of the elements); without search_in only the title is
\* searched
C22_TextScope ==
    (/\ call.fn \in {"filter_markets", "filter_events"}
     /\ call.criteria.kind = "dict"
     /\ "text" \in DOMAIN call.criteria.value
     /\ DOMAIN call.criteria.value \subseteq {"text", "search_in"}) =>
        LET params == call.criteria.value
            fields == IF "search_in" \in DOMAIN params
                      THEN {params.search_in[i] : i \in DOMAIN params.search_in}
                      ELSE {"title"}
            input == IF call.fn = "filter_markets" THEN call.markets
                     ELSE call.events
        IN  call.result = SelectSeq(input, LAMBDA r :
                \E field \in fields : \E s \in FieldTexts(r, field) :
                    Occurs(params.text, s))

C22_Witness ==
    /\ call.fn = "filter_markets"
    /\ call.criteria = Dict([text |-> <<"A">>, search_in |-> <<"tags", "outcomes">>])
    /\ Len(call.markets) = 2 /\ Len(call.result) = 1
    /\ call.markets[1].title = <<"a">>
    /\ call.result[1].tags = <<<<"b">>, <<"A">>>>

\* two tags are the same when letters are compared without their case
SameTag(a, b) ==
    /\ Len(a) = Len(b)
    /\ \A k \in DOMAIN a : LowerChar(a[k]) = LowerChar(b[k])

\* C23: a non-empty tags constraint keeps exactly the records that have a
\* tag equal, ignoring case, to one of the requested tags; a record without
\* tags is rejected
C23_AnyTag ==
    (/\ call.fn \in {"filter_markets", "filter_events"}
     /\ call.criteria.kind = "dict"
     /\ DOMAIN call.criteria.value = {"tags"}
     /\ call.criteria.value.tags # <<>>) =>
        LET query == call.criteria.value.tags
            input == IF call.fn = "filter_markets" THEN call.markets
                     ELSE call.events
        IN  call.result = SelectSeq(input, LAMBDA r :
                /\ r.tags \notin {NoneList, <<>>}
                /\ \E i \in DOMAIN query : \E j \in DOMAIN r.tags :
                       SameTag(query[i], r.tags[j]))

C23_Witness ==
    /\ call.fn = "filter_markets"
    /\ call.criteria = Dict([tags |-> <<<<"b", "B">>, <<"a", "B">>>>])
    /\ Len(call.markets) = 2 /\ Len(call.result) = 1
    /\ call.markets[1].tags = NoneList
    /\ call.result[1].tags = <<<<"A", "b">>, <<"b">>>>

RECURSIVE IsSubsequence(_, _)
\* r holds only elements of l, each at most as often as l, in the order of l
IsSubsequence(r, l) ==
    IF r = <<>> THEN TRUE
    ELSE IF l = <<>> THEN FALSE
    ELSE IF Head(r) = Head(l) THEN IsSubsequence(Tail(r), Tail(l))
    ELSE IsSubsequence(r, Tail(l))

\* C24: whatever the criteria is (predicate, string or criteria object),
\* filter_markets and filter_events leave the list they are given and its
\* records as they were, and the result is a subsequence of that list
C24_InputUntouched ==
    call.fn \in {"filter_markets", "filter_events"} =>
        LET input == IF call.fn = "filter_markets" THEN call.markets
                     ELSE call.events
        IN  /\ call.left = input
            /\ IsSubsequence(call.result, input)

C24_Witness ==
    /\ call.fn = "filter_markets"
    /\ call.criteria.kind = "callable"
    /\ Len(call.markets) = 2 /\ Len(call.result) = 1
    /\ call.result[1] = call.markets[2]
    /\ call.result[1] # call.markets[1]
    /\ call.left = call.markets

\* C28: the markets match collects are the markets filter_markets keeps
\* with {text: query, search_in: search_in} (no search_in key when match got
\* none), each once, in the same order; a single market that matches in two
\* scanned fields is returned, match does not raise
C28_MatchCollectsFiltered ==
    call.fn = "match" =>
        LET params == IF call.search_in = NoneFields THEN [text |-> call.query]
                      ELSE [text |-> call.query, search_in |-> call.search_in]
            kept == filter_markets(call.self, Dict(params))
        IN  /\ call.matches = kept
            /\ Len(kept) = 1 =>
                   (call.result.raises = "none" /\ call.result.value = kept[1])
            /\ Len(kept) # 1 => call.result.raises = "ValueError"

C28_Witness ==
    /\ call.fn = "match"
    /\ call.query = <<"A">>
    /\ call.search_in = <<"description", "title">>
    /\ Len(call.self) = 2
    /\ call.self[1].title = <<"a">> /\ call.self[1].description = <<"a">>
    /\ call.self[2] = PlainMarket
    /\ call.result.raises = "none"
    /\ call.result.value = call.self[1]

\* C25: an envelope with success false raises and hands out no data; the
\* error carries the error string, or the message of the error object; an
\* envelope with success true returns its data
C25_EnvelopeUnwrapped ==
    (call.fn = "_handle_response" /\ "success" \in DOMAIN call.response) =>
        LET r == call.response
        IN  /\ ~r.success =>
                 /\ call.result.raises # "none"
                 /\ "value" \notin DOMAIN call.result
                 /\ ("error" \in DOMAIN r /\ r.error.type = "str") =>
                        call.result.message = r.error.value
                 /\ (/\ "error" \in DOMAIN r /\ r.error.type = "dict"
                     /\ "message" \in DOMAIN r.error.value) =>
                        call.result.message = r.error.value.message
            /\ (r.success /\ "data" \in DOMAIN r) =>
                 (call.result.raises = "none" /\ call.result.value = r.data)

C25_Witness ==
    /\ call.fn = "_handle_response"
    /\ "success" \in DOMAIN call.response /\ ~call.response.success
    /\ "data" \in DOMAIN call.response /\ call.response.data = 1
    /\ call.response.error.type = "dict"
    /\ call.result.raises = "Exception"
    /\ call.result.message = "bad"

\* C27: within one ensure_server_running() call that found a stale lock
\* file, the file is gone when the launcher is invoked and stays gone while
\* the launcher runs; the polling loop is entered, and a health poll made,
\* only after the one launcher run of the call has exited with status zero
C27_StepsOrdered ==
    \A s \in Sups :
        InEnsure(s) =>
            /\ (/\ sup[s].callState = "StaleLock"
                /\ (sup[s].pc = "launch" \/ sup[s].launches > 0)) =>
                   lock = NoLockFile
            /\ sup[s].pc = "launch" => (sup[s].launches = 0 /\ ~sup[s].polled)
            /\ (sup[s].pc = "wait" \/ sup[s].polled) =>
                   (sup[s].launch = "ok" /\ sup[s].launches = 1)

C27_Witness ==
    \E s \in Sups :
        /\ sup[s].mode = "ensure" /\ sup[s].callState = "StaleLock"
        /\ sup[s].pc = "raised" /\ sup[s].err = "launch"
        /\ sup[s].launch = "nonzero" /\ sup[s].launches = 1
        /\ ~sup[s].polled
        /\ lock = NoLockFile

\* C29: whatever the interleaving with other Supervisors and with the
\* sidecar that writes the lock file, the lock file a Supervisor deletes
\* records a process that is not running when the file is deleted: it is
\* never the lock file of a live sidecar written after the Supervisor read
\* a stale one
C29_OnlyStaleDeleted ==
    \A s \in Sups : sup[s].unlinked.state = "none"

----------------------------------------------------------------------------
(* Properties of the market cache *)

\* C26: once a load has succeeded, a load_markets() without reload returns
\* the cached markets, leaves the cache as it is and issues no request,
\* however many calls came before; with reload it issues one request and,
\* when the fetch succeeds, the cache holds the fetched markets and nothing
\* else
C26_LoadedOnce ==
    [][(exchange._loaded_markets /\ exchange' # exchange) =>
          LET last == exchange'.last
          IN  IF ~last.reload
              THEN /\ exchange'.requests = exchange.requests
                   /\ exchange'.markets = exchange.markets
                   /\ ~last.raises /\ last.ret = exchange.markets
              ELSE /\ exchange'.requests = exchange.requests + 1
                   /\ last.raises => exchange'.markets = exchange.markets
                   /\ ~last.raises =>
                          /\ last.ret = exchange'.markets
                          /\ \A id \in MarketIds :
                                 IF \E i \in DOMAIN last.fetched :
                                        last.fetched[i].market_id = id
                                 THEN \E i \in DOMAIN last.fetched :
                                          /\ last.fetched[i].market_id = id
                                          /\ last.fetched[i].title =
                                                 exchange'.markets[id]
                                 ELSE exchange'.markets[id] = <<"None">>]_vars

C26_Witness ==
    /\ exchange._loaded_markets
    /\ exchange.requests = 2
    /\ exchange.last.called /\ ~exchange.last.reload /\ ~exchange.last.raises
    /\ exchange.last.fetched = <<>>
    /\ exchange.last.ret = exchange.markets
    /\ exchange.markets[1] = <<"b">>
    /\ exchange.markets[2] = <<"None">>

====
